---- MODULE Spec2Model ----
(***************************************************************************)
(* Model of src/components/real-time/order-panel.tsx (OrderPanel).         *)
(*                                                                         *)
(* The component is single threaded and event driven.  Every action below  *)
(* is one run-to-completion step of the event loop: a user event, the      *)
(* arrival of new props together with the effects the render triggers, the *)
(* continuation of an async handler after an await, or a timer callback.   *)
(*                                                                         *)
(* The props are owned by the parent.  A refresh of the order feed hands   *)
(* the panel a new array; whether the order objects in it are new objects  *)
(* or the old ones updated in place is the parent's choice, so both are    *)
(* modelled (the panel itself treats the array as mutable: it sorts the    *)
(* prop in place, line 70).  A running handler keeps the array of the      *)
(* render that created it.                                                 *)
(*                                                                         *)
(* Three specifications share the actions.  Spec follows the advance of    *)
(* orders (handleStatusChange, its remote call and its reconciliation      *)
(* wait) in the runs in which the table statistics effect finds no token,  *)
(* so that no statistics are fetched.  SpecLive is Spec with one           *)
(* invocation followed and with the fairness of calls and timers.          *)
(* SpecView follows the aggregation: the four feeds change, statistics     *)
(* fetches are in flight and answered, and items are removed, while no     *)
(* advance is started.                                                     *)
(***************************************************************************)
EXTENDS Integers, Sequences, FiniteSets, TLC

\* ------------------------------------------------------------------ bounds
NumOrders == 2
\* handleStatusChange invocations in progress at the same time
MaxInFlight == 2
\* reconciliation waits whose timers are armed at the same time
MaxWaiting == 1
\* line items of an order
MaxItems == 2
\* getTableStats fetches in flight at the same time
MaxFetches == 2

\* ------------------------------------------------------- program constants
PollInterval == 500
WaitTimeout == 10000

Orders == 1..NumOrders
Status == {"pending", "preparing", "served", "ready"}
NoOrder == 0

\* the line items of the orders of the feed: order 1 has two lines, every
\* other order one; every order sits at the table of its own number
ItemsOf(id) ==
  IF id = 1
  THEN [k \in 1..MaxItems |-> [dish_id |-> k, quantity |-> MaxItems + 1 - k]]
  ELSE <<[dish_id |-> 1, quantity |-> 1]>>

\* the dish with id d as the dish list holds it
Dish(d) == [id |-> d, name |-> ToString(d), price |-> 50 * d]

\* the members of a set of numbers in increasing order
Ascending(S) ==
  CHOOSE seq \in [1..Cardinality(S) -> S] :
    \A j, k \in 1..Cardinality(S) : j < k => seq[j] < seq[k]

\* the dish lists the parent may pass: any of the dishes the orders name may
\* be missing from the list
DishFeeds ==
  {[k \in 1..Cardinality(S) |-> Dish(Ascending(S)[k])] :
     S \in SUBSET (1..MaxItems)}

\* the table lists the parent may pass: every table, or all but the last
TableFeeds ==
  {[k \in 1..n |-> [table_number |-> k]] : n \in (NumOrders - 1)..NumOrders}

\* the answers of getTableStats: no record, or the record of table 1 with
\* dish 1 in preparation
StatsFeeds ==
  {<<>>,
   <<[table_number |-> 1,
      items |-> <<[dish_id |-> 1, item_status |-> "preparing"]>>]>>}

\* the item lists an order of the feed may carry: up to MaxItems lines, two
\* lines may name the same dish
ItemLists ==
  UNION {{[k \in 1..n |-> [dish_id |-> f[k], quantity |-> MaxItems + 1 - k]] :
            f \in [1..n -> 1..MaxItems]} : n \in 1..MaxItems}

VARIABLES
  orders,          \* prop: order id -> the order of the feed
  inPlace,         \* the parent refreshes the feed by updating its objects
  dishes,          \* prop: the dish list
  tables,          \* prop: the table list
  tableStats,      \* useState([]): the per-table item status records
  fetches,         \* the getTableStats fetches in flight, in issue order
  activeTab,       \* useState("preparing")
  filteredOrders,  \* useState([]): the visible list
  loadingOrderId,  \* useState(null): NoOrder stands for null
  advances,        \* the handleStatusChange invocations in progress
  calls,           \* the remote status calls in flight, in issue order
  returned         \* how the handler run of the latest step ended, if one did

vars == <<orders, inPlace, dishes, tables, tableStats, fetches, activeTab,
          filteredOrders, loadingOrderId, advances, calls, returned>>

\* what the panel receives: the props and the table statistics
feeds == <<orders, inPlace, dishes, tables, tableStats, fetches>>

\* ------------------------------------------------------------ pure helpers

\* a handler run that ended with outcome and issued no updateOrDeleteOrder
NoCall == [op |-> "none"]

Returned(outcome) == [outcome |-> outcome, call |-> NoCall]

\* the least element of a non-empty set of positions
First(positions) == CHOOSE k \in positions : \A j \in positions : k <= j

\* statItem?.item_status || "pending", lines 73, 78 and 86: find takes the
\* first record that matches
ItemStatus(stats, table_id, dish_id) ==
  LET records == {k \in 1..Len(stats) : stats[k].table_number = table_id}
  IN IF records = {} THEN "pending"
     ELSE LET tableData == stats[First(records)]
              lines == {k \in 1..Len(tableData.items) :
                          tableData.items[k].dish_id = dish_id}
          IN IF lines = {} THEN "pending"
             ELSE tableData.items[First(lines)].item_status

\* dishes.find(d => d.id === item.dish_id), line 76: the positions of the
\* dishes that match
Matches(dshs, dish_id) == {k \in 1..Len(dshs) : dshs[k].id = dish_id}

\* OrderItems with the line total taken from the price alone
OrderItems_PriceOnly(order, dshs, stats) ==
  [k \in 1..Len(order.items) |->
     LET item == order.items[k]
         found == Matches(dshs, item.dish_id)
     IN [dish_id |-> item.dish_id,
         dish_name |-> IF found = {} THEN "Unknown Dish"
                       ELSE dshs[First(found)].name,
         quantity |-> item.quantity,
         total |-> IF found = {} THEN 0 ELSE dshs[First(found)].price,
         item_status |-> ItemStatus(stats, order.table_id, item.dish_id)]]

\* order.items.map(...), lines 75-88
OrderItems(order, dshs, stats) ==
  [k \in 1..Len(order.items) |->
     LET item == order.items[k]
         found == Matches(dshs, item.dish_id)
     IN [dish_id |-> item.dish_id,
         dish_name |-> IF found = {} THEN "Unknown Dish"
                       ELSE dshs[First(found)].name,
         quantity |-> item.quantity,
         total |-> (IF found = {} THEN 0 ELSE dshs[First(found)].price)
                     * item.quantity,
         item_status |-> ItemStatus(stats, order.table_id, item.dish_id)]]

\* orderItems.reduce((sum, item) => sum + item.total, 0), line 90
RECURSIVE Total(_)
Total(orderItems) ==
  IF orderItems = <<>> THEN 0
  ELSE Total(SubSeq(orderItems, 1, Len(orderItems) - 1))
         + orderItems[Len(orderItems)].total

\* table?.table_number ?? "Unknown", lines 72 and 94
TableLabel(tbls, table_id) ==
  IF \E k \in 1..Len(tbls) : tbls[k].table_number = table_id
  THEN ToString(table_id)
  ELSE "Unknown"

\* genOrders: the feed newest first (order ids are issued in creation order)
GenOrders(ords, dshs, tbls, stats) ==
  [k \in 1..NumOrders |->
     LET order == ords[NumOrders + 1 - k]
         orderItems == OrderItems(order, dshs, stats)
     IN [order_id |-> order.id,
         table_id |-> TableLabel(tbls, order.table_id),
         items |-> orderItems,
         total |-> Total(orderItems),
         status |-> order.order_status]]

\* tabCounts with the served bucket counted under a misspelt status
TabCounts_ServedMisspelt(gen) ==
  LET Count(s) == LET Is(o) == o.status = s IN Len(SelectSeq(gen, Is))
  IN [pending |-> Count("pending"), preparing |-> Count("preparing"),
      served |-> Count("serve"), ready |-> Count("ready")]

\* tabCounts, lines 102-107
TabCounts(gen) ==
  LET Count(s) == LET Is(o) == o.status = s IN Len(SelectSeq(gen, Is))
  IN [pending |-> Count("pending"), preparing |-> Count("preparing"),
      served |-> Count("served"), ready |-> Count("ready")]

\* the list the filter effect stores
FilterByTab(ords, dshs, tbls, stats, tab) ==
  LET Keep(o) == o.status = tab
  IN SelectSeq(GenOrders(ords, dshs, tbls, stats), Keep)

\* position of a status in pending -> preparing -> served -> ready
Rank(s) ==
  CASE s = "pending" -> 1
    [] s = "preparing" -> 2
    [] s = "served" -> 3
    [] s = "ready" -> 4

\* switch (order.status): the expected next status
NextStatusOf(s) ==
  CASE s = "pending" -> "preparing"
    [] s = "preparing" -> "served"
    [] s = "served" -> "ready"
    [] OTHER -> "ready"

\* RemoteCallOf with the call of the served case repeated from the case
\* before it
RemoteCallOf_ServedSlip(s) ==
  CASE s = "pending" -> "markOrderAsPreparing"
    [] s = "preparing" -> "markOrderAsServed"
    [] s = "served" -> "markOrderAsServed"
    [] OTHER -> "none"

\* switch (order.status): the remote operation awaited, "none" in the default
RemoteCallOf(s) ==
  CASE s = "pending" -> "markOrderAsPreparing"
    [] s = "preparing" -> "markOrderAsServed"
    [] s = "served" -> "markOrderAsReady"
    [] OTHER -> "none"

\* prev.map(o => o.order_id === id ? { ...o, status: nextStatus } : o)
PatchStatus(prev, id, nextStatus) ==
  [k \in 1..Len(prev) |->
     IF prev[k].order_id = id THEN [prev[k] EXCEPT !.status = nextStatus]
     ELSE prev[k]]

\* UpdatedItems with the filter dropping the first matching line only
UpdatedItems_FirstLineOnly(items, dish_id) ==
  LET hits == {k \in 1..Len(items) : items[k].dish_id = dish_id}
      kept == IF hits = {} THEN items
              ELSE [j \in 1..(Len(items) - 1) |->
                      IF j < First(hits) THEN items[j] ELSE items[j + 1]]
  IN [k \in 1..Len(kept) |->
        [dish_id |-> kept[k].dish_id, quantity |-> kept[k].quantity]]

\* order.items.filter(item => item.dish_id !== dish_id)
\*            .map(item => ({ dish_id, quantity })), lines 202-204
UpdatedItems(items, dish_id) ==
  LET Keep(item) == item.dish_id # dish_id
      kept == SelectSeq(items, Keep)
  IN [k \in 1..Len(kept) |->
        [dish_id |-> kept[k].dish_id, quantity |-> kept[k].quantity]]

\* ------------------------------------------------------------- the render

Visible(id) == \E k \in 1..Len(filteredOrders) : filteredOrders[k].order_id = id

\* the card of order id in the visible list
Card(id) ==
  filteredOrders[CHOOSE j \in 1..Len(filteredOrders) :
                   filteredOrders[j].order_id = id]

VisibleStatus(id) == Card(id).status

\* {order.status !== 'ready' && (<button ...>)}
AdvanceButtonShown(id) == Visible(id) /\ VisibleStatus(id) # "ready"

\* disabled={loadingOrderId === order.order_id}
AdvanceButtonDisabled(id) == loadingOrderId = id

\* {order.status === 'pending' && item.item_status === 'pending' && (...)}
\* for line k of the card of order id
RemoveButtonShown(id, k) ==
  /\ Visible(id)
  /\ k \in 1..Len(Card(id).items)
  /\ Card(id).status = "pending"
  /\ Card(id).items[k].item_status = "pending"

\* ------------------------------------------------------------------- init

\* the state after the first render and its effects; the parent knows every
\* dish and every table, and the table statistics effect found no token
Init ==
  /\ orders \in {[id \in Orders |->
                    [id |-> id, table_id |-> id, order_status |-> f[id],
                     items |-> ItemsOf(id)]] : f \in [Orders -> Status]}
  /\ inPlace \in BOOLEAN
  /\ dishes = [k \in 1..MaxItems |-> Dish(k)]
  /\ tables = [k \in 1..NumOrders |-> [table_number |-> k]]
  /\ tableStats = <<>>
  /\ fetches = <<>>
  /\ activeTab = "preparing"
  /\ filteredOrders =
       FilterByTab(orders, dishes, tables, tableStats, "preparing")
  /\ loadingOrderId = NoOrder
  /\ advances = <<>>
  /\ calls = <<>>
  /\ returned = Returned("none")

\* ------------------------------------------------------- invocation state

\* calls holds one call for every invocation that awaits one, in the order
\* of advances: the position in calls of the call invocation i awaits
CallIndex(i) == Cardinality({k \in 1..i : advances[k].pc = "call"})

\* s without its k-th element
RemoveAt(s, k) == [j \in 1..(Len(s) - 1) |-> IF j < k THEN s[j] ELSE s[j + 1]]

\* the invocations that still own an armed timer
TimersArmed ==
  Cardinality({k \in 1..Len(advances) :
                 advances[k].interval \/ advances[k].timeout})

\* orders.find(o => o.id === order.order_id).order_status as the closure of
\* invocation a sees it: the array of the render that created the handler
CapturedStatus(a) == a.feedStatus

\* the elapsed time of a wait at its next poll.  The polls between the
\* first and the last run the same callback; they are taken in one step.
NextPoll(elapsed) ==
  IF elapsed = PollInterval /\ PollInterval < WaitTimeout - PollInterval
  THEN WaitTimeout - PollInterval
  ELSE elapsed + PollInterval

\* an invocation leaves advances when it has returned and its timers are off
Settle(advs) ==
  LET Keep(a) == a.pc \in {"call", "wait"} \/ a.interval \/ a.timeout
  IN SelectSeq(advs, Keep)

\* --------------------------------------------------------------- actions

\* SelectTab with activeTab missing from the dependencies of the filter
\* effect
SelectTab_NoFilter(tab) ==
  /\ tab # activeTab
  /\ activeTab' = tab
  /\ returned' = Returned("none")
  /\ UNCHANGED <<feeds, filteredOrders, loadingOrderId, advances, calls>>

\* onClick={() => setActiveTab(tab.id)} and the filter effect it triggers
SelectTab(tab) ==
  /\ tab # activeTab
  /\ activeTab' = tab
  /\ filteredOrders' = FilterByTab(orders, dishes, tables, tableStats, tab)
  /\ returned' = Returned("none")
  /\ UNCHANGED <<feeds, loadingOrderId, advances, calls>>

\* handleStatusChange(order), lines 126-154, up to the first await.  The
\* token is read from localStorage at the call, an input of the invocation.
\* watch marks the invocation as the one whose progress is followed; at most
\* one invocation in progress carries the mark.
handleStatusChange(id, hasToken, watch) ==
  /\ Len(advances) < MaxInFlight
  /\ AdvanceButtonShown(id)
  /\ ~AdvanceButtonDisabled(id)
  /\ watch => hasToken /\ \A k \in 1..Len(advances) : ~advances[k].watched
  /\ LET s == VisibleStatus(id)
         inv == [order_id |-> id, status |-> s,
                 nextStatus |-> NextStatusOf(s), pc |-> "call",
                 feedStatus |-> orders[id].order_status,
                 interval |-> FALSE, timeout |-> FALSE, elapsed |-> 0,
                 watched |-> watch]
     IN IF ~hasToken
        THEN /\ loadingOrderId' = NoOrder
             /\ returned' = Returned("noToken")
             /\ UNCHANGED <<filteredOrders, advances, calls>>
        ELSE IF RemoteCallOf(s) # "none"
        THEN /\ loadingOrderId' = id
             /\ calls' = Append(calls,
                           [op |-> RemoteCallOf(s), order_id |-> id])
             /\ advances' = Append(advances, inv)
             /\ returned' = Returned("none")
             /\ UNCHANGED filteredOrders
        ELSE /\ TimersArmed < MaxWaiting
             /\ loadingOrderId' = id
             /\ filteredOrders' =
                  PatchStatus(filteredOrders, id, NextStatusOf(s))
             /\ advances' = Append(advances,
                              [inv EXCEPT !.pc = "wait",
                                          !.interval = TRUE, !.timeout = TRUE])
             /\ returned' = Returned("none")
             /\ UNCHANGED calls
  /\ UNCHANGED <<feeds, activeTab>>

\* the status call invocation i awaits resolves: lines 156-176, up to the
\* second await
CallResolves(i) ==
  /\ advances[i].pc = "call"
  /\ TimersArmed < MaxWaiting
  /\ filteredOrders' = PatchStatus(filteredOrders, advances[i].order_id,
                                   advances[i].nextStatus)
  /\ advances' = [advances EXCEPT ![i].pc = "wait",
                                  ![i].interval = TRUE,
                                  ![i].timeout = TRUE]
  /\ calls' = RemoveAt(calls, CallIndex(i))
  /\ returned' = Returned("none")
  /\ UNCHANGED <<feeds, activeTab, loadingOrderId>>

\* CallRejects without the finally block
CallRejects_NoFinally(i) ==
  /\ advances[i].pc = "call"
  /\ advances' = Settle([advances EXCEPT ![i].pc = "failed"])
  /\ calls' = RemoveAt(calls, CallIndex(i))
  /\ returned' = Returned("failed")
  /\ UNCHANGED <<feeds, activeTab, filteredOrders,
                 loadingOrderId>>

\* the status call invocation i awaits rejects: catch and finally, lines
\* 178-182
CallRejects(i) ==
  /\ advances[i].pc = "call"
  /\ advances' = Settle([advances EXCEPT ![i].pc = "failed"])
  /\ calls' = RemoveAt(calls, CallIndex(i))
  /\ loadingOrderId' = NoOrder
  /\ returned' = Returned("failed")
  /\ UNCHANGED <<feeds, activeTab, filteredOrders>>

\* the setInterval callback of invocation i, lines 163-169, and, when it
\* resolves the promise, the finally block
checkInterval(i) ==
  /\ advances[i].interval
  /\ advances[i].elapsed < WaitTimeout
  /\ LET a == advances[i]
         found == CapturedStatus(a) = a.nextStatus
     IN IF found
        THEN /\ advances' = Settle([advances EXCEPT
                   ![i].elapsed = NextPoll(a.elapsed),
                   ![i].interval = FALSE,
                   ![i].pc = IF a.pc = "wait" THEN "observed" ELSE a.pc])
             /\ loadingOrderId' =
                  IF a.pc = "wait" THEN NoOrder ELSE loadingOrderId
             /\ returned' = Returned(IF a.pc = "wait" THEN "observed" ELSE "none")
        ELSE /\ advances' = [advances EXCEPT ![i].elapsed = NextPoll(a.elapsed)]
             /\ returned' = Returned("none")
             /\ UNCHANGED loadingOrderId
  /\ UNCHANGED <<feeds, activeTab, filteredOrders, calls>>

\* time passes for invocation i while only its timeout is armed
TimePasses(i) ==
  /\ ~advances[i].interval
  /\ advances[i].timeout
  /\ advances[i].elapsed < WaitTimeout
  /\ advances' = [advances EXCEPT ![i].elapsed = WaitTimeout]
  /\ returned' = Returned("none")
  /\ UNCHANGED <<feeds, activeTab, filteredOrders,
                 loadingOrderId, calls>>

\* waitTimeout without resolve(false)
waitTimeout_NeverResolves(i) ==
  /\ advances[i].timeout
  /\ advances[i].elapsed = WaitTimeout
  /\ advances' = Settle([advances EXCEPT ![i].timeout = FALSE,
                                         ![i].interval = FALSE])
  /\ returned' = Returned("none")
  /\ UNCHANGED <<feeds, activeTab, filteredOrders, loadingOrderId, calls>>

\* waitTimeout without clearInterval(checkInterval)
waitTimeout_KeepsPolling(i) ==
  /\ advances[i].timeout
  /\ advances[i].elapsed = WaitTimeout
  /\ LET a == advances[i]
     IN /\ advances' = Settle([advances EXCEPT
              ![i].timeout = FALSE,
              ![i].pc = IF a.pc = "wait" THEN "timedOut" ELSE a.pc])
        /\ loadingOrderId' = IF a.pc = "wait" THEN NoOrder ELSE loadingOrderId
        /\ returned' = Returned(IF a.pc = "wait" THEN "timedOut" ELSE "none")
  /\ UNCHANGED <<feeds, activeTab, filteredOrders, calls>>

\* the setTimeout callback of invocation i, lines 172-175, and, when it
\* resolves the promise, the finally block
waitTimeout(i) ==
  /\ advances[i].timeout
  /\ advances[i].elapsed = WaitTimeout
  /\ LET a == advances[i]
     IN /\ advances' = Settle([advances EXCEPT
              ![i].timeout = FALSE,
              ![i].interval = FALSE,
              ![i].pc = IF a.pc = "wait" THEN "timedOut" ELSE a.pc])
        /\ loadingOrderId' = IF a.pc = "wait" THEN NoOrder ELSE loadingOrderId
        /\ returned' = Returned(IF a.pc = "wait" THEN "timedOut" ELSE "none")
  /\ UNCHANGED <<feeds, activeTab, filteredOrders, calls>>

\* fetchTableStats(), lines 42-55, up to the await: without a token it
\* returns at once, with one a getTableStats fetch is in flight
FetchTableStats(hasToken) ==
  IF hasToken THEN Append(fetches, [overtaken |-> FALSE]) ELSE fetches

\* the parent passes a refreshed order feed in which order id has moved on
\* to status s (the status of an order only moves forward); the render runs
\* the table statistics effect (lines 41-56) and the filter effect (lines
\* 122-124)
FeedRefresh(id, s, hasToken) ==
  /\ Rank(s) > Rank(orders[id].order_status)
  /\ hasToken => Len(fetches) < MaxFetches
  /\ orders' = [orders EXCEPT ![id].order_status = s]
  /\ fetches' = FetchTableStats(hasToken)
  /\ filteredOrders' =
       FilterByTab(orders', dishes, tables, tableStats, activeTab)
  /\ advances' =
       [k \in 1..Len(advances) |->
          IF inPlace /\ advances[k].order_id = id
          THEN [advances[k] EXCEPT !.feedStatus = s]
          ELSE advances[k]]
  /\ returned' = Returned("none")
  /\ UNCHANGED <<inPlace, dishes, tables, tableStats, activeTab,
                 loadingOrderId, calls>>

\* the parent passes a refreshed order feed in which the item list of order
\* id has changed (to a list no longer than the one the order started
\* with); the render runs the same two effects
ItemsRefresh(id, items, hasToken) ==
  /\ items # orders[id].items
  /\ Len(items) <= Len(ItemsOf(id))
  /\ hasToken => Len(fetches) < MaxFetches
  /\ orders' = [orders EXCEPT ![id].items = items]
  /\ fetches' = FetchTableStats(hasToken)
  /\ filteredOrders' =
       FilterByTab(orders', dishes, tables, tableStats, activeTab)
  /\ returned' = Returned("none")
  /\ UNCHANGED <<inPlace, dishes, tables, tableStats, activeTab,
                 loadingOrderId, advances, calls>>

\* the parent passes another dish list; the render runs the filter effect
DishesRefresh(dshs) ==
  /\ dshs # dishes
  /\ dishes' = dshs
  /\ filteredOrders' =
       FilterByTab(orders, dishes', tables, tableStats, activeTab)
  /\ returned' = Returned("none")
  /\ UNCHANGED <<orders, inPlace, tables, tableStats, fetches, activeTab,
                 loadingOrderId, advances, calls>>

\* the parent passes another table list; the render runs the filter effect
TablesRefresh(tbls) ==
  /\ tbls # tables
  /\ tables' = tbls
  /\ filteredOrders' =
       FilterByTab(orders, dishes, tables', tableStats, activeTab)
  /\ returned' = Returned("none")
  /\ UNCHANGED <<orders, inPlace, dishes, tableStats, fetches, activeTab,
                 loadingOrderId, advances, calls>>

\* the getTableStats fetch i resolves with data: setTableStats(response.data),
\* line 49.  The render that follows recomputes genOrders; no dependency of
\* the filter effect (line 124) has changed, so the effect does not run.
\* The fetches issued before i and still in flight have been overtaken.
StatsArrive(i, data) ==
  /\ i \in 1..Len(fetches)
  /\ tableStats' = data
  /\ fetches' = RemoveAt([k \in 1..Len(fetches) |->
                            IF k < i THEN [overtaken |-> TRUE]
                            ELSE fetches[k]], i)
  /\ returned' = Returned("none")
  /\ UNCHANGED <<orders, inPlace, dishes, tables, activeTab, filteredOrders,
                 loadingOrderId, advances, calls>>

\* the getTableStats fetch i rejects: the catch of lines 50-52
StatsFail(i) ==
  /\ i \in 1..Len(fetches)
  /\ fetches' = RemoveAt(fetches, i)
  /\ returned' = Returned("none")
  /\ UNCHANGED <<orders, inPlace, dishes, tables, tableStats, activeTab,
                 filteredOrders, loadingOrderId, advances, calls>>

\* handleRemoveItem with a local patch of the visible list after the call
\* (the statement commented out at line 221)
handleRemoveItem_LocalPatch(id, k, confirmed, hasToken, ok) ==
  /\ RemoveButtonShown(id, k)
  /\ LET order == Card(id)
         dish_id == order.items[k].dish_id
         updatedItems == UpdatedItems(order.items, dish_id)
         Keep(item) == item.dish_id # dish_id
     IN /\ returned' =
             IF ~confirmed THEN Returned("declined")
             ELSE IF ~hasToken THEN Returned("removeNoToken")
             ELSE [outcome |-> IF ok THEN "removed" ELSE "removeFailed",
                   call |-> [op |-> "updateOrDeleteOrder",
                             order_id |-> order.order_id,
                             items |-> updatedItems]]
        /\ filteredOrders' =
             IF confirmed /\ hasToken /\ ok
             THEN [j \in 1..Len(filteredOrders) |->
                     IF filteredOrders[j].order_id = order.order_id
                     THEN [filteredOrders[j] EXCEPT
                             !.items = SelectSeq(order.items, Keep)]
                     ELSE filteredOrders[j]]
             ELSE filteredOrders
  /\ UNCHANGED <<feeds, activeTab, loadingOrderId, advances, calls>>

\* handleRemoveItem without the token check of lines 207-215
handleRemoveItem_NoTokenCheck(id, k, confirmed, hasToken, ok) ==
  /\ RemoveButtonShown(id, k)
  /\ LET order == Card(id)
         updatedItems == UpdatedItems(order.items, order.items[k].dish_id)
     IN returned' =
          IF ~confirmed THEN Returned("declined")
          ELSE [outcome |-> IF ok THEN "removed" ELSE "removeFailed",
                call |-> [op |-> "updateOrDeleteOrder",
                          order_id |-> order.order_id,
                          items |-> updatedItems]]
  /\ UNCHANGED <<feeds, activeTab, filteredOrders,
                 loadingOrderId, advances, calls>>

\* handleRemoveItem(order, item.dish_id) from the Remove button of line k of
\* the card of order id, lines 200-226.  confirmed is the answer of
\* window.confirm, hasToken the token read from localStorage, ok the outcome
\* of the awaited call.  What follows the await changes no state of the
\* component, so the call and its completion are one step.
handleRemoveItem(id, k, confirmed, hasToken, ok) ==
  /\ RemoveButtonShown(id, k)
  /\ LET order == Card(id)
         updatedItems == UpdatedItems(order.items, order.items[k].dish_id)
     IN returned' =
          IF ~confirmed THEN Returned("declined")
          ELSE IF ~hasToken THEN Returned("removeNoToken")
          ELSE [outcome |-> IF ok THEN "removed" ELSE "removeFailed",
                call |-> [op |-> "updateOrDeleteOrder",
                          order_id |-> order.order_id,
                          items |-> updatedItems]]
  /\ UNCHANGED <<feeds, activeTab, filteredOrders,
                 loadingOrderId, advances, calls>>

Next ==
  \/ \E tab \in Status : SelectTab(tab)
  \/ \E id \in Orders, hasToken \in BOOLEAN :
       handleStatusChange(id, hasToken, FALSE)
  \/ \E i \in 1..Len(advances) : CallResolves(i)
  \/ \E i \in 1..Len(advances) : CallRejects(i)
  \/ \E i \in 1..Len(advances) : checkInterval(i)
  \/ \E i \in 1..Len(advances) : TimePasses(i)
  \/ \E i \in 1..Len(advances) : waitTimeout(i)
  \/ \E id \in Orders, s \in Status : FeedRefresh(id, s, FALSE)
  \/ \E id \in Orders, k \in 1..MaxItems :
       \E confirmed \in BOOLEAN, hasToken \in BOOLEAN, ok \in BOOLEAN :
         handleRemoveItem(id, k, confirmed, hasToken, ok)

Spec == Init /\ [][Next]_vars

\* Next with one invocation of handleStatusChange followed at a time, and
\* without handleRemoveItem, which changes no state of the component
NextLive ==
  \/ \E tab \in Status : SelectTab(tab)
  \/ \E id \in Orders, hasToken \in BOOLEAN, watch \in BOOLEAN :
       handleStatusChange(id, hasToken, watch)
  \/ \E i \in 1..Len(advances) : CallResolves(i)
  \/ \E i \in 1..Len(advances) : CallRejects(i)
  \/ \E i \in 1..Len(advances) : checkInterval(i)
  \/ \E i \in 1..Len(advances) : TimePasses(i)
  \/ \E i \in 1..Len(advances) : waitTimeout(i)
  \/ \E id \in Orders, s \in Status : FeedRefresh(id, s, FALSE)

\* the remote call an invocation awaits eventually resolves or rejects, and
\* an armed timer eventually fires
\* (for one invocation the steps exclude one another, so that one condition
\* for each invocation in progress says it)
Fairness ==
  \A i \in 1..MaxInFlight :
    WF_vars(/\ i \in 1..Len(advances)
            /\ \/ CallResolves(i)
               \/ CallRejects(i)
               \/ checkInterval(i)
               \/ TimePasses(i)
               \/ waitTimeout(i))

SpecLive == Init /\ [][NextLive]_vars /\ Fairness

\* the state after the first render and its effects when the parent passes
\* any dish list and table list; the table statistics fetch of the first
\* render is in flight unless there was no token
InitView ==
  /\ orders \in {[id \in Orders |->
                    [id |-> id, table_id |-> id, order_status |-> f[id],
                     items |-> ItemsOf(id)]] : f \in [Orders -> Status]}
  /\ inPlace = FALSE
  /\ dishes \in DishFeeds
  /\ tables \in TableFeeds
  /\ tableStats = <<>>
  /\ fetches \in {<<>>, <<[overtaken |-> FALSE]>>}
  /\ activeTab = "preparing"
  /\ filteredOrders =
       FilterByTab(orders, dishes, tables, tableStats, "preparing")
  /\ loadingOrderId = NoOrder
  /\ advances = <<>>
  /\ calls = <<>>
  /\ returned = Returned("none")

NextView ==
  \/ \E tab \in Status : SelectTab(tab)
  \/ \E id \in Orders, s \in Status, hasToken \in BOOLEAN :
       FeedRefresh(id, s, hasToken)
  \/ \E id \in Orders, items \in ItemLists, hasToken \in BOOLEAN :
       ItemsRefresh(id, items, hasToken)
  \/ \E dshs \in DishFeeds : DishesRefresh(dshs)
  \/ \E tbls \in TableFeeds : TablesRefresh(tbls)
  \/ \E i \in 1..Len(fetches), data \in StatsFeeds : StatsArrive(i, data)
  \/ \E i \in 1..Len(fetches) : StatsFail(i)
  \/ \E id \in Orders, k \in 1..MaxItems :
       \E confirmed \in BOOLEAN, hasToken \in BOOLEAN, ok \in BOOLEAN :
         handleRemoveItem(id, k, confirmed, hasToken, ok)

SpecView == InitView /\ [][NextView]_vars

\* ----------------------------------------------------------- properties

\* an advance of order id has started and not yet returned
InFlight(id) ==
  \E k \in 1..Len(advances) :
    advances[k].order_id = id /\ advances[k].pc \in {"call", "wait"}

\* the invocations of handleStatusChange for order id that are in progress
InvocationsOf(id) ==
  LET Mine(a) == a.order_id = id IN SelectSeq(advances, Mine)

\* C1: while an advance of order X is in progress the advance button of X is
\* disabled, so X has no second advance in progress; the button of an order
\* without an advance in progress is not disabled.
C1_GuardPerOrder ==
  /\ \A id \in Orders : InFlight(id) => AdvanceButtonDisabled(id)
  /\ \A j, k \in 1..Len(advances) :
       (/\ j # k
        /\ advances[j].pc \in {"call", "wait"}
        /\ advances[k].pc \in {"call", "wait"})
       => advances[j].order_id # advances[k].order_id
  /\ \A id \in Orders : AdvanceButtonDisabled(id) => InFlight(id)

\* C2: a step that leaves the invocations of order B alone, B having an
\* advance in flight, does not change whether B is the order marked loading.
C2_OtherOrdersKeepMarker ==
  [][\A b \in Orders :
       (InFlight(b) /\ InvocationsOf(b)' = InvocationsOf(b))
       => ((loadingOrderId' = b) <=> (loadingOrderId = b))]_vars

\* the step in which invocation i applies its optimistic patch
PatchStep(i) ==
  /\ advances[i].pc = "call"
  /\ Len(advances') = Len(advances)
  /\ advances'[i].pc = "wait"

\* C3: the optimistic patch moves the status a card shows to the immediate
\* successor of the status it showed: never backward, never past a state.
C3_PatchMovesOneForward ==
  [][\A i \in 1..Len(advances) :
       PatchStep(i) =>
         \A j \in 1..Len(filteredOrders) :
           filteredOrders'[j].status # filteredOrders[j].status
           => Rank(filteredOrders'[j].status)
                = Rank(filteredOrders[j].status) + 1]_vars

\* C4: a card changes outside the effects only when a status call has just
\* resolved; the card of the order then shows the successor of the status
\* the advance started from, whatever the feed reports; and no call issued
\* earlier for the same order is still in flight at that moment.
C4_PatchFollowsItsCall ==
  [][/\ (/\ orders' = orders
         /\ activeTab' = activeTab
         /\ filteredOrders' # filteredOrders)
        => \E i \in 1..Len(advances) : PatchStep(i)
     /\ \A i \in 1..Len(advances) :
          (PatchStep(i) /\ Visible(advances[i].order_id))
          => /\ Rank(VisibleStatus(advances[i].order_id)')
                  = Rank(advances[i].status) + 1
             /\ \A j \in 1..(i - 1) :
                  advances[j].order_id = advances[i].order_id
                  => advances[j].pc # "call"]_vars

\* C5: the step in which a status call rejects leaves the visible list as it
\* was, clears the loading marker, arms no timer, issues no call and ends the
\* invocation.
C5_RejectedCallPatchesNothing ==
  [][\A i \in 1..Len(advances) :
       CallRejects(i)
       => /\ filteredOrders' = filteredOrders
          /\ loadingOrderId' = NoOrder
          /\ TimersArmed' = TimersArmed
          /\ Len(calls') = Len(calls) - 1
          /\ Len(advances') = Len(advances) - 1
          /\ returned'.outcome = "failed"]_vars

C5_Witness ==
  /\ returned.outcome = "failed"
  /\ loadingOrderId = NoOrder
  /\ \E k \in 1..Len(filteredOrders) :
       /\ filteredOrders[k].status = "pending"
       /\ orders[filteredOrders[k].order_id].order_status = "pending"

\* C6: a poll of a reconciliation wait that runs while the order feed
\* reports the expected next status ends the wait.
C6_PollSeesTheFeed ==
  [][\A i \in 1..Len(advances) :
       (/\ checkInterval(i)
        /\ advances[i].pc = "wait"
        /\ orders[advances[i].order_id].order_status = advances[i].nextStatus)
       => returned'.outcome = "observed"]_vars

\* C7: an invocation whose reconciliation wait has ended has neither its
\* repeating check nor its timeout armed.
C7_TimersCancelledTogether ==
  \A k \in 1..Len(advances) :
    advances[k].pc \notin {"call", "wait"}
    => ~advances[k].interval /\ ~advances[k].timeout

\* C8: the timeout that ends a wait fires 10,000 units after the wait began,
\* stops the polling, clears the loading marker, reports no failure and
\* leaves the visible list as it was.
C8_TimeoutKeepsThePatch ==
  [][\A i \in 1..Len(advances) :
       (waitTimeout(i) /\ advances[i].pc = "wait")
       => /\ advances[i].elapsed = WaitTimeout
          /\ filteredOrders' = filteredOrders
          /\ loadingOrderId' = NoOrder
          /\ TimersArmed' = TimersArmed - 1
          /\ Len(advances') = Len(advances) - 1
          /\ returned'.outcome = "timedOut"]_vars

C8_Witness ==
  /\ returned.outcome = "timedOut"
  /\ loadingOrderId = NoOrder
  /\ \E k \in 1..Len(filteredOrders) :
       /\ filteredOrders[k].status = "preparing"
       /\ orders[filteredOrders[k].order_id].order_status = "pending"

\* C9: an advance and a confirmed item removal that find no access token
\* issue no remote call, leave the visible list alone and start no timer and
\* no invocation; the advance returns with the loading marker null.
C9_NoTokenAborts ==
  [][/\ \A id \in Orders :
          handleStatusChange(id, FALSE, FALSE)
          => /\ calls' = calls
             /\ filteredOrders' = filteredOrders
             /\ advances' = advances
             /\ loadingOrderId' = NoOrder
             /\ returned' = Returned("noToken")
     /\ \A id \in Orders, k \in 1..MaxItems, ok \in BOOLEAN :
          handleRemoveItem(id, k, TRUE, FALSE, ok)
          => /\ calls' = calls
             /\ returned'.call = NoCall
             /\ filteredOrders' = filteredOrders
             /\ advances' = advances
             /\ loadingOrderId' = loadingOrderId]_vars

C9_Witness ==
  /\ returned.outcome \in {"noToken", "removeNoToken"}
  /\ returned.call = NoCall
  /\ loadingOrderId = NoOrder
  /\ advances = <<>>
  /\ calls = <<>>
  /\ filteredOrders # <<>>

\* C10: an advance with a token on a card showing s issues one call, the one
\* for s (markOrderAsPreparing for pending, markOrderAsServed for preparing,
\* markOrderAsReady for served) with the id of the order, and expects the
\* successor of s; nothing else issues a status call; for ready the handler
\* has no call and keeps ready, and a ready card has no advance button.
C10_CallMatchesStatus ==
  /\ [][/\ \A id \in Orders :
             handleStatusChange(id, TRUE, FALSE)
             => LET s == VisibleStatus(id)
                    op == CASE s = "pending" -> "markOrderAsPreparing"
                            [] s = "preparing" -> "markOrderAsServed"
                            [] s = "served" -> "markOrderAsReady"
                            [] OTHER -> "no such call"
                IN /\ s # "ready"
                   /\ calls' = Append(calls, [op |-> op, order_id |-> id])
                   /\ Len(advances') = Len(advances) + 1
                   /\ advances'[Len(advances')].order_id = id
                   /\ Rank(advances'[Len(advances')].nextStatus) = Rank(s) + 1
        /\ Len(calls') > Len(calls)
           => \E id \in Orders : handleStatusChange(id, TRUE, FALSE)]_vars
  /\ [](/\ RemoteCallOf("ready") = "none"
        /\ NextStatusOf("ready") = "ready"
        /\ \A id \in Orders :
             (Visible(id) /\ VisibleStatus(id) = "ready")
             => ~AdvanceButtonShown(id)
        /\ Len(calls) = Cardinality({k \in 1..Len(advances) :
                                       advances[k].pc = "call"}))

C10_Witness ==
  \E k \in 1..Len(advances) :
    /\ advances[k].status = "served"
    /\ advances[k].pc = "call"
    /\ calls[CallIndex(k)] =
         [op |-> "markOrderAsReady", order_id |-> advances[k].order_id]

\* the lines of items that do not name dish d, in their order, each as its
\* dish id and quantity
RECURSIVE Excluding(_, _)
Excluding(items, d) ==
  IF items = <<>> THEN <<>>
  ELSE IF Head(items).dish_id = d THEN Excluding(Tail(items), d)
  ELSE <<[dish_id |-> Head(items).dish_id,
          quantity |-> Head(items).quantity]>> \o Excluding(Tail(items), d)

\* C11: a removal confirmed with a token present issues one
\* updateOrDeleteOrder call for the order, carrying the order's lines without
\* those of the target dish, in their order, as dish id and quantity; a
\* declined removal issues no call; no removal issues a status call.
C11_RemovalPayload ==
  [][\A id \in Orders, k \in 1..MaxItems :
       RemoveButtonShown(id, k)
       => \A confirmed, hasToken, ok \in BOOLEAN :
            handleRemoveItem(id, k, confirmed, hasToken, ok)
            => /\ (confirmed /\ hasToken)
                  => returned'.call =
                       [op |-> "updateOrDeleteOrder", order_id |-> id,
                        items |-> Excluding(orders[id].items,
                                            orders[id].items[k].dish_id)]
               /\ ~confirmed => returned'.call = NoCall
               /\ calls' = calls]_vars

\* a removal went out for a dish that two lines of the order name
C11_Witness ==
  /\ returned.outcome = "removed"
  /\ Len(returned.call.items) + 2 = Len(orders[returned.call.order_id].items)

\* C12: a removal request goes out only for an order the feed reports as
\* pending and for a line whose dish the stored item status records of the
\* order's table resolve to pending (pending when no record matches).
C12_RemovalOnlyWhilePending ==
  [][\A id \in Orders, k \in 1..MaxItems :
       RemoveButtonShown(id, k)
       => \A ok \in BOOLEAN :
            handleRemoveItem(id, k, TRUE, TRUE, ok)
            => /\ orders[id].order_status = "pending"
               /\ ItemStatus(tableStats, orders[id].table_id,
                             Card(id).items[k].dish_id) = "pending"]_vars

\* C13: a step that changes the orders, the dishes, the tables or the item
\* status records leaves the visible list equal to the aggregation of the
\* feeds as they then are, filtered by the selected tab; so every visible
\* line shows the status its current record gives it.
C13_ViewFollowsTheFeeds ==
  [][<<orders, dishes, tables, tableStats>>'
       # <<orders, dishes, tables, tableStats>>
     => filteredOrders' =
          FilterByTab(orders', dishes', tables', tableStats', activeTab')]_vars

\* C14: every order in the visible list shows a status equal to the selected
\* tab, and every aggregated order whose status equals the selected tab is in
\* the visible list.
C14_VisibleIsTheBucket ==
  LET gen == GenOrders(orders, dishes, tables, tableStats)
  IN /\ \A k \in 1..Len(filteredOrders) : filteredOrders[k].status = activeTab
     /\ \A j \in 1..Len(gen) :
          gen[j].status = activeTab => Visible(gen[j].order_id)

\* C14 as amended: the visible list holds, newest first, exactly the orders
\* whose status in the order feed equals the selected tab; a card shows the
\* status of the tab unless an advance has patched the status it expected
\* (preparing, served or ready) into it.
C14_VisibleIsTheBucketOfTheFeed ==
  LET gen == GenOrders(orders, dishes, tables, tableStats)
      members == {j \in 1..Len(gen) : gen[j].status = activeTab}
  IN /\ Len(filteredOrders) = Cardinality(members)
     /\ \A k \in 1..Len(filteredOrders) :
          /\ orders[filteredOrders[k].order_id].order_status = activeTab
          /\ k > 1 => filteredOrders[k].order_id < filteredOrders[k - 1].order_id
          /\ filteredOrders[k].status # activeTab
             => filteredOrders[k].status \in {"preparing", "served", "ready"}

\* a card of the selected bucket shows the status an advance patched in
C14_Witness ==
  \E k \in 1..Len(filteredOrders) :
    /\ filteredOrders[k].status # activeTab
    /\ orders[filteredOrders[k].order_id].order_status = activeTab
    /\ Len(filteredOrders) > 1

\* C15: whatever its outcome (declined, no token, call succeeded, call
\* failed), handleRemoveItem leaves the visible list, the loading marker and
\* the selected tab as they were; a visible card loses lines only in a step
\* in which the order feed changes, and then shows the lines of the feed.
C15_RemovalPatchesNothing ==
  [][/\ \A id \in Orders, k \in 1..MaxItems :
          RemoveButtonShown(id, k)
          => \A confirmed, hasToken, ok \in BOOLEAN :
               handleRemoveItem(id, k, confirmed, hasToken, ok)
               => /\ filteredOrders' = filteredOrders
                  /\ loadingOrderId' = loadingOrderId
                  /\ activeTab' = activeTab
     /\ \A id \in Orders :
          (/\ Visible(id)
           /\ Visible(id)'
           /\ Len(Card(id)'.items) < Len(Card(id).items))
          => /\ orders'[id].items # orders[id].items
             /\ Len(Card(id)'.items) = Len(orders'[id].items)]_vars

\* a removal call has succeeded and the card still shows the removed line
C15_Witness ==
  /\ returned.outcome = "removed"
  /\ Visible(returned.call.order_id)
  /\ Len(Card(returned.call.order_id).items) = Len(returned.call.items) + 1
  /\ Card(returned.call.order_id).items
       = OrderItems(orders[returned.call.order_id], dishes, tableStats)

\* C16: the four bucket counts sum to the number of aggregated orders, and
\* each count is the number of aggregated orders of that status.
C16_CountsPartition ==
  LET gen == GenOrders(orders, dishes, tables, tableStats)
      counts == TabCounts(gen)
  IN /\ counts.pending + counts.preparing + counts.served + counts.ready
          = Len(gen)
     /\ \A s \in Status :
          counts[s] = Cardinality({j \in 1..Len(gen) : gen[j].status = s})
     /\ Len(gen) = Cardinality(Orders)

\* orders sit in two different buckets, one of them served
C16_Witness ==
  LET counts == TabCounts(GenOrders(orders, dishes, tables, tableStats))
  IN counts.served >= 1 /\ counts.pending >= 1

\* the sum of a sequence of numbers
RECURSIVE Sum(_)
Sum(numbers) ==
  IF numbers = <<>> THEN 0 ELSE Head(numbers) + Sum(Tail(numbers))

\* C17: the total of every aggregated order is the sum of its line totals;
\* the total of a line is the price of the dish it names times its quantity,
\* and a line whose dish is not in the dish list is named "Unknown Dish" and
\* has total 0.
C17_TotalIsSumOfLines ==
  LET gen == GenOrders(orders, dishes, tables, tableStats)
  IN \A j \in 1..Len(gen) :
       LET lines == gen[j].items
           feed == orders[gen[j].order_id].items
       IN /\ Len(lines) = Len(feed)
          /\ gen[j].total = Sum([k \in 1..Len(lines) |-> lines[k].total])
          /\ \A k \in 1..Len(lines) :
               LET known == {d \in 1..Len(dishes) :
                               dishes[d].id = feed[k].dish_id}
               IN IF known = {}
                  THEN /\ lines[k].dish_name = "Unknown Dish"
                       /\ lines[k].total = 0
                  ELSE \E d \in known :
                         /\ lines[k].dish_name = dishes[d].name
                         /\ lines[k].total
                              = dishes[d].price * feed[k].quantity

\* an order with a line of a known dish, in quantity above one, and a line of
\* an unknown dish
C17_Witness ==
  LET gen == GenOrders(orders, dishes, tables, tableStats)
  IN \E j \in 1..Len(gen) :
       /\ \E k \in 1..Len(gen[j].items) :
            gen[j].items[k].dish_name = "Unknown Dish"
       /\ \E k \in 1..Len(gen[j].items) :
            /\ gen[j].items[k].total > 0
            /\ gen[j].items[k].quantity > 1
       /\ gen[j].total > 0

\* the followed invocation has started and not yet returned
Watched ==
  \E k \in 1..Len(advances) :
    advances[k].watched /\ advances[k].pc \in {"call", "wait"}

\* C18: every invocation of handleStatusChange that has started eventually
\* returns, and the step in which it returns clears the loading marker.
C18_AdvanceFinishes ==
  /\ Watched ~> ~Watched
  /\ [][(Watched /\ ~Watched') => loadingOrderId' = NoOrder]_vars

\* the followed invocation has waited out its timeout and owns the marker
C18_Witness ==
  \E k \in 1..Len(advances) :
    /\ advances[k].watched
    /\ advances[k].pc = "wait"
    /\ advances[k].elapsed = WaitTimeout
    /\ loadingOrderId = advances[k].order_id

\* C19: no removal request goes out for an order while an advance that
\* started from pending (markOrderAsPreparing) is awaiting its call or, the
\* call having succeeded, its confirmation.
C19_NoRemovalAfterAdvance ==
  [][\A id \in Orders, k \in 1..MaxItems :
       RemoveButtonShown(id, k)
       => \A ok \in BOOLEAN :
            handleRemoveItem(id, k, TRUE, TRUE, ok)
            => ~\E j \in 1..Len(advances) :
                  /\ advances[j].order_id = id
                  /\ advances[j].status = "pending"
                  /\ advances[j].pc \in {"call", "wait"}]_vars

\* C20: the response of a fetch that a later issued fetch has overtaken does
\* not replace the stored records; a fetch that fails, and a refresh that
\* finds no token, leave the stored records as they were.
C20_LatestFetchWins ==
  [][/\ \A i \in 1..Len(fetches) :
          fetches[i].overtaken
          => \A data \in StatsFeeds :
               StatsArrive(i, data) => tableStats' = tableStats
     /\ \A i \in 1..Len(fetches) : StatsFail(i) => tableStats' = tableStats
     /\ fetches' = fetches => tableStats' = tableStats]_vars
====
